---- MODULE Spec2Model ----
(***************************************************************************)
(* A model of the 5W1H evaluation pipeline: main.py (main, run_evaluate,   *)
(* iter_tasks, run_preprocess_only, run_prepare_only), the OpenAI and      *)
(* Anthropic evaluators, the DetailedEvaluation schema, the BASSE and     *)
(* FLARES dataset plugins, the dataset registry, the output file names,   *)
(* the review-task builder and the spreadsheet export.                    *)
(*                                                                         *)
(* Conventions.  A Python dict is a function from its keys; a missing key  *)
(* is a key outside the DOMAIN.  Python None is None (for a dict-valued    *)
(* slot), NoneStr (for a str-valued slot) or NoneInt (for an int-valued    *)
(* slot).  A JSON text is a string naming one of the sample texts; what    *)
(* json.loads makes of it is given by JsonLoads.                           *)
(***************************************************************************)
EXTENDS Integers, Sequences, FiniteSets, TLC

VARIABLES
    pc,             \* position of the run in main / run_evaluate / evaluate
    cfg,            \* the configuration values read so far
    tasks,          \* run_evaluate: tasks = list(iter_tasks(...))
    k,              \* evaluate: number of tasks taken from the iterator
    completion,     \* evaluate: the completion of the current task
    evaluation,     \* evaluate: the parsed DetailedEvaluation of the current task
    results,        \* evaluate: results
    llm_calls,      \* number of chat.completions.create calls started
    exc,            \* the exception that ended the run, or "none"
    results_file,   \* the results JSON artifact, None until written
    review_objects, \* run_evaluate: review_objects
    review_file,    \* the review JSON artifact, None until written
    returned,       \* what the step returned (docs, tasks or the results bundle)
    basse,          \* state of one BASSE ingestion run
    flares,         \* state of one FLARES preprocessing run
    excel,          \* state of one create_excel_for_review call
    call            \* one call of a helper function: its arguments and outcome

vars == <<pc, cfg, tasks, k, completion, evaluation, results, llm_calls, exc,
          results_file, review_objects, review_file, returned, basse, flares, excel, call>>

(***************************************************************************)
(* Bounds of the model.                                                    *)
(***************************************************************************)
MaxDocs == 2
MaxLimit == 2
MaxTasks == 2
MaxLines == 3
MaxTags == 5
MaxItems == 2
MaxStr == 2
MaxPad == 1
MaxMissing == 1

(***************************************************************************)
(* Python None.                                                            *)
(***************************************************************************)
None == [none |-> TRUE]
NoneStr == "<None>"
NoneInt == 0 - 1

Min(a, b) == IF a < b THEN a ELSE b

(***************************************************************************)
(* pydantic_models/output_pydantic_models.py                               *)
(***************************************************************************)
ScoreFields == {"factual_accuracy", "completeness", "relevance_and_conciseness",
                "clarity_and_readability", "source_faithfulness", "overall_coherence"}
JustificationFields == {"factual_accuracy", "completeness", "relevance_and_conciseness",
                        "clarity_and_readability", "source_faithfulness", "overall_coherence"}
ConfidenceFields == {"score", "justification"}
ScoreGe == 1
ScoreLe == 5

\* Faulty variant of ScoreInRange: the upper bound le=5 is not enforced.
ScoreAtLeastOne(v) == ScoreGe <= v

\* Field(..., ge=1, le=5) on an int field.
ScoreInRange(v) == ScoreGe <= v /\ v <= ScoreLe

\* Scores.model_validate: every field required, every value within ge/le.
ValidScores(o) ==
    /\ ScoreFields \subseteq DOMAIN o
    /\ \A f \in ScoreFields : ScoreInRange(o[f])

\* Justifications.model_validate: every field required.
ValidJustifications(o) == JustificationFields \subseteq DOMAIN o

\* ConfidenceLevel.model_validate.
ValidConfidenceLevel(o) ==
    /\ ConfidenceFields \subseteq DOMAIN o
    /\ ScoreInRange(o["score"])

\* DetailedEvaluation.model_validate(obj): TRUE when no ValidationError is raised.
ModelValidate(obj) ==
    /\ obj # None
    /\ {"scores", "justifications", "confidence_level"} \subseteq DOMAIN obj
    /\ ValidScores(obj["scores"])
    /\ ValidJustifications(obj["justifications"])
    /\ ValidConfidenceLevel(obj["confidence_level"])

\* DetailedEvaluation.model_dump(): the declared fields, and only those.
ModelDump(obj) ==
    [scores |-> [f \in ScoreFields |-> obj["scores"][f]],
     justifications |-> [f \in JustificationFields |-> obj["justifications"][f]],
     confidence_level |-> [f \in ConfidenceFields |-> obj["confidence_level"][f]]]

(***************************************************************************)
(* Model output.  The texts a model can return, and json.loads of each.    *)
(***************************************************************************)
GoodA ==
    [scores |-> [f \in ScoreFields |-> IF f = "completeness" THEN 5 ELSE 4],
     justifications |-> [f \in JustificationFields |-> "jA"],
     confidence_level |-> [score |-> 5, justification |-> "cA"]]
GoodB ==
    [scores |-> [f \in ScoreFields |-> IF f = "completeness" THEN 1 ELSE 2],
     justifications |-> [f \in JustificationFields |-> "jB"],
     confidence_level |-> [score |-> 1, justification |-> "cB"]]
EmptyObject == [f \in {} |-> 0]

\* The JSON object a well-formed sample text denotes.
JsonObject(text) ==
    CASE text = "goodA" -> GoodA
      [] text = "goodB" -> GoodB
      [] text = "score6" ->
            [GoodA EXCEPT !["scores"] = [@ EXCEPT !["factual_accuracy"] = 6]]
      [] text = "score0" ->
            [GoodB EXCEPT !["scores"] = [@ EXCEPT !["overall_coherence"] = 0]]
      [] text = "conf0" ->
            [GoodB EXCEPT !["confidence_level"] = [@ EXCEPT !["score"] = 0]]
      [] text = "noScoreKey" ->
            [GoodA EXCEPT !["scores"] =
                [f \in ScoreFields \ {"source_faithfulness"} |-> 3]]
      [] text = "noJustKey" ->
            [GoodA EXCEPT !["justifications"] =
                [f \in JustificationFields \ {"completeness"} |-> "jA"]]
      [] text = "{}" -> EmptyObject
      [] OTHER -> EmptyObject

\* json.loads(text): ok is FALSE when it raises JSONDecodeError.
JsonLoads(text) ==
    IF text \in {"garbled", ""}
    THEN [ok |-> FALSE, obj |-> EmptyObject]
    ELSE [ok |-> TRUE, obj |-> JsonObject(text)]

\* The arguments string of a returned tool call, and the message content.
ArgSamples == {"goodA", "score6", "noJustKey", "garbled"}
ContentSamples == {NoneStr, "", "goodB", "conf0", "score0", "noScoreKey", "garbled"}
ToolCallSamples == {<<>>} \cup {<<a>> : a \in ArgSamples} \cup {<<"goodA", "garbled">>}

\* completion.usage: absent, or the three counts.
UsageSamples ==
    {None,
     [prompt_tokens |-> 2, completion_tokens |-> 1, total_tokens |-> 3],
     [prompt_tokens |-> 2, completion_tokens |-> 1, total_tokens |-> NoneInt]}

Completions ==
    [message : [tool_calls : ToolCallSamples, content : ContentSamples],
     usage : UsageSamples]

(***************************************************************************)
(* preprocessing/basse_preprocessing.py, preparation/basse_preparation.py  *)
(*                                                                         *)
(* A key is the sequence of the pieces of its string: 'gpt4o-5w1h_summ' is *)
(* <<"gpt4o", "-5w1h", "_summ">>.  A Document is an ordered dict: the      *)
(* sequence of its (key, value) entries in insertion order.                *)
(***************************************************************************)
BasseModels == <<"claude", "commandr", "gpt4o", "reka", "llama3">>

\* dict.get(key) of a dict given as a function: NoneStr when the key is absent.
DictGet(d, key) == IF key \in DOMAIN d THEN d[key] ELSE NoneStr

\* Lines 32-53: the Document appended for one decoded line.
BasseDocument(json_object) ==
    LET model_extractions ==
            IF "model_extractions" \in DOMAIN json_object
            THEN json_object["model_extractions"] ELSE EmptyObject
        summ(m) ==
            IF <<m, "-5w1h">> \in DOMAIN model_extractions
            THEN DictGet(model_extractions[<<m, "-5w1h">>], "summ")
            ELSE NoneStr
    IN  <<[key |-> <<"idx">>,
           value |-> IF "idx" \in DOMAIN json_object
                     THEN json_object["idx"] ELSE NoneInt],
          [key |-> <<"round">>, value |-> DictGet(json_object, "round")],
          [key |-> <<"original_document">>,
           value |-> DictGet(json_object, "original_document")]>>
        \o [i \in 1..Len(BasseModels) |->
              [key |-> <<BasseModels[i], "-5w1h", "_summ">>,
               value |-> summ(BasseModels[i])]]

\* doc_entry[key] of an ordered dict.
DocGet(doc, key) ==
    LET i == CHOOSE j \in 1..Len(doc) : doc[j].key = key IN doc[i].value

\* key.endswith('_summ')
EndsWithSumm(key) == Len(key) > 0 /\ key[Len(key)] = "_summ"

\* key.replace('-5w1h_summ', ''): the pieces '-5w1h', '_summ' in a row are removed.
ReplaceSuffix(key) ==
    IF Len(key) >= 2 /\ key[Len(key) - 1] = "-5w1h" /\ key[Len(key)] = "_summ"
    THEN SubSeq(key, 1, Len(key) - 2)
    ELSE key

\* prepare_basse_tasks(doc_entry): the tasks it yields, in order.
PrepareBasseTasks(doc_entry) ==
    LET doc_id == DocGet(doc_entry, <<"idx">>)
        original_text == DocGet(doc_entry, <<"original_document">>)
        extraction_keys == SelectSeq([i \in 1..Len(doc_entry) |-> doc_entry[i].key],
                                     EndsWithSumm)
    IN  [i \in 1..Len(extraction_keys) |->
            <<doc_id, original_text, DocGet(doc_entry, extraction_keys[i]),
              ReplaceSuffix(extraction_keys[i])>>]

(***************************************************************************)
(* preprocessing/flares_preprocessing.py, preparation/flares_preparation.py*)
(***************************************************************************)
REQUIRED_LABELS == {"WHO", "WHAT", "WHEN", "WHERE"}

\* Number of tags among the first n of `tags` that carry `label`.
RECURSIVE LabelCount(_, _, _)
LabelCount(tags, label, n) ==
    IF n = 0 THEN 0
    ELSE LabelCount(tags, label, n - 1)
         + (IF tags[n].W5H1_Label = label THEN 1 ELSE 0)

\* process_flares_single_object_tags_nested_with_position(json_object).
\* Enumerated_Tag_Id f"{label}_{count}" is the pair <<label, count>>, None is <<>>.
ProcessFlaresObject(json_object) ==
    LET tags == json_object.Tags IN
    [Id |-> json_object.Id,
     Text |-> json_object.Text,
     Processed_Tags |->
        [i \in 1..Len(tags) |->
            [W5H1_Label |-> tags[i].W5H1_Label,
             Enumerated_Tag_Id |->
                IF tags[i].W5H1_Label \notin {NoneStr, ""}
                THEN <<tags[i].W5H1_Label, LabelCount(tags, tags[i].W5H1_Label, i)>>
                ELSE <<>>,
             Reliability_Label |-> tags[i].Reliability_Label,
             Tag_Text |-> tags[i].Tag_Text,
             Tag_Start |-> tags[i].Tag_Start]]]

\* list.sort(key=lambda x: x['Tag_Start']): a stable sort, by insertion.
RECURSIVE SortByTagStart(_)
SortByTagStart(s) ==
    IF Len(s) <= 1 THEN s
    ELSE LET front == SortByTagStart(SubSeq(s, 1, Len(s) - 1))
             t == s[Len(s)]
             before == SelectSeq(front, LAMBDA u : u.Tag_Start <= t.Tag_Start)
             after == SelectSeq(front, LAMBDA u : u.Tag_Start > t.Tag_Start)
         IN  before \o <<t>> \o after

\* grouped_tags[label]: the tags of the label, in input order.
GroupedTags(obj, label) ==
    SelectSeq(obj.Processed_Tags, LAMBDA t : t.W5H1_Label = label)

\* Faulty variant of ReliableTags: the Reliability_Label filter is left out.
ReliableTagsUnfiltered(obj, label) == GroupedTags(obj, label)

\* reliable_tags of a label (lines 126-129).
ReliableTags(obj, label) ==
    SelectSeq(GroupedTags(obj, label), LAMBDA t : t.Reliability_Label = "confiable")

\* Faulty variant of BestTagForLabel: the reliable tags are not sorted by Tag_Start.
BestTagUnsorted(obj, label) == ReliableTags(obj, label)[1]

\* best_tag_for_label (lines 135-136).
BestTagForLabel(obj, label) == SortByTagStart(ReliableTags(obj, label))[1]

\* Faulty variant of SelectBestOfObject: the reliable WHY and HOW tags of the
\* object are kept next to the four best tags.
SelectBestKeepsWhyHow(obj, label_order) ==
    IF ~ (\A label \in REQUIRED_LABELS : Len(GroupedTags(obj, label)) > 0)
    THEN <<>>
    ELSE IF \E label \in REQUIRED_LABELS : Len(ReliableTags(obj, label)) = 0
    THEN <<>>
    ELSE <<[Id |-> obj.Id,
            Text |-> obj.Text,
            Processed_Tags |->
                SortByTagStart([i \in 1..Len(label_order) |->
                                    BestTagForLabel(obj, label_order[i])]
                               \o ReliableTags(obj, "WHY")
                               \o ReliableTags(obj, "HOW"))]>>

\* One iteration of the loop of select_best_5w1h_combination: the objects it
\* appends for obj (none or one).  label_order is the order in which the set
\* REQUIRED_LABELS is iterated, which Python leaves to the hash seed.
SelectBestOfObject(obj, label_order) ==
    IF ~ (\A label \in REQUIRED_LABELS : Len(GroupedTags(obj, label)) > 0)
    THEN <<>>
    ELSE IF \E label \in REQUIRED_LABELS : Len(ReliableTags(obj, label)) = 0
    THEN <<>>
    ELSE <<[Id |-> obj.Id,
            Text |-> obj.Text,
            Processed_Tags |->
                SortByTagStart([i \in 1..Len(label_order) |->
                                    BestTagForLabel(obj, label_order[i])])]>>

\* select_best_5w1h_combination(list_of_objects_with_tags).
RECURSIVE SelectBest5w1hCombination(_, _)
SelectBest5w1hCombination(list, label_order) ==
    IF list = <<>> THEN <<>>
    ELSE SelectBestOfObject(list[1], label_order)
         \o SelectBest5w1hCombination(Tail(list), label_order)

\* str.title() of a label.
Title(label) ==
    CASE label = "WHO" -> "Who"
      [] label = "WHAT" -> "What"
      [] label = "WHEN" -> "When"
      [] label = "WHERE" -> "Where"
      [] label = "WHY" -> "Why"
      [] label = "HOW" -> "How"
      [] OTHER -> label

\* The flat object of one optimal object (lines 183-198): a later tag of the
\* same label overwrites an earlier one.
FlattenObject(obj) ==
    LET tags == obj.Processed_Tags
        labelled == {i \in 1..Len(tags) : tags[i].W5H1_Label \notin {NoneStr, ""}}
        last(key) == CHOOSE i \in labelled :
                        /\ Title(tags[i].W5H1_Label) = key
                        /\ \A j \in labelled :
                              Title(tags[j].W5H1_Label) = key => j <= i
    IN  [key \in {"Id", "Text"} \cup {Title(tags[i].W5H1_Label) : i \in labelled} |->
            CASE key = "Id" -> obj.Id
              [] key = "Text" -> obj.Text
              [] OTHER -> tags[last(key)].Tag_Text]

\* flatten_optimal_objects(optimal_list).
FlattenOptimalObjects(optimal_list) ==
    [i \in 1..Len(optimal_list) |-> FlattenObject(optimal_list[i])]

\* doc_entry.get(key, "No especificado")
GetOrUnspecified(doc_entry, key) ==
    IF key \in DOMAIN doc_entry THEN doc_entry[key] ELSE "No especificado"

\* prepare_flares_tasks(doc_entry): the tasks it yields.  The extraction text is
\* the sequence of its six "<heading>: <value>" lines.
PrepareFlaresTasks(doc_entry) ==
    <<<<doc_entry["Id"],
        doc_entry["Text"],
        <<<<"Que", GetOrUnspecified(doc_entry, "What")>>,
          <<"Quien", GetOrUnspecified(doc_entry, "Who")>>,
          <<"Cuando", GetOrUnspecified(doc_entry, "When")>>,
          <<"Donde", GetOrUnspecified(doc_entry, "Where")>>,
          <<"Por que", GetOrUnspecified(doc_entry, "Why")>>,
          <<"Como", GetOrUnspecified(doc_entry, "How")>>>>,
        <<"flares_ground_truth">>>>>>

(***************************************************************************)
(* core/datasets.py                                                        *)
(***************************************************************************)
\* (dataset_name or '').strip().upper() of the sample names.
StripUpper(dataset_name) ==
    CASE dataset_name \in {"BASSE", "basse", " Basse "} -> "BASSE"
      [] dataset_name \in {"FLARES", "flares"} -> "FLARES"
      [] dataset_name = NoneStr -> ""
      [] OTHER -> dataset_name

\* _REGISTRY.keys()
Registry == {"BASSE", "FLARES"}

\* get_plugin(dataset_name): the registry key, or "KeyError".
GetPlugin(dataset_name) ==
    IF StripUpper(dataset_name) \in Registry
    THEN StripUpper(dataset_name) ELSE "KeyError"

\* plugin.prepare_tasks(doc)
PluginPrepareTasks(plugin, doc) ==
    IF plugin = "BASSE" THEN PrepareBasseTasks(doc) ELSE PrepareFlaresTasks(doc)

(***************************************************************************)
(* The content of the dataset files of a run: what plugin.preprocess(cfg)  *)
(* returns, for n input records.                                           *)
(***************************************************************************)
\* The i-th decoded line of the BASSE file.
BasseLine(i) ==
    [idx |-> i,
     round |-> "r1",
     original_document |-> "X",
     model_extractions |->
        [m \in IF i = 1 THEN {<<"gpt4o", "-5w1h">>}
               ELSE {<<BasseModels[j], "-5w1h">> : j \in 1..Len(BasseModels)} |->
            [summ |-> "S1"]]]

\* The i-th record of the FLARES files: reliable WHO/WHAT/WHEN/WHERE tags, and
\* for even i a reliable WHY tag too.
FlaresRecord(i) ==
    LET tag(label, start) ==
            [W5H1_Label |-> label, Reliability_Label |-> "confiable",
             Tag_Text |-> label, Tag_Start |-> start]
    IN  [Id |-> i,
         Text |-> "T",
         Tags |-> <<tag("WHAT", 3), tag("WHO", 0), tag("WHEN", 5), tag("WHERE", 7)>>
                  \o (IF i % 2 = 0 THEN <<tag("WHY", 9)>> ELSE <<>>)]

\* process_and_flatten_data(merged) of core/datasets.py line 48.
ProcessAndFlattenData(merged, label_order) ==
    FlattenOptimalObjects(SelectBest5w1hCombination(merged, label_order))

\* plugin.preprocess(cfg) for a dataset of n records.
PluginPreprocess(plugin, n) ==
    IF plugin = "BASSE"
    THEN [i \in 1..n |-> BasseDocument(BasseLine(i))]
    ELSE ProcessAndFlattenData([i \in 1..n |-> ProcessFlaresObject(FlaresRecord(i))],
                               <<"WHO", "WHAT", "WHEN", "WHERE">>)

(***************************************************************************)
(* main.py: iter_tasks, run_preprocess_only                                *)
(***************************************************************************)
\* `limit and limit > 0`
LimitApplies(limit) == limit # NoneInt /\ limit # 0 /\ limit > 0

\* docs[:limit]
Slice(docs, limit) == SubSeq(docs, 1, Min(limit, Len(docs)))

\* Faulty variant of YieldTasks: the limit test is `produced > limit`.
RECURSIVE YieldTasksOffByOne(_, _, _)
YieldTasksOffByOne(doc_tasks, produced, limit) ==
    IF doc_tasks = <<>> THEN [produced |-> produced, stop |-> FALSE]
    ELSE LET now == Append(produced, Head(doc_tasks)) IN
         IF LimitApplies(limit) /\ Len(now) > limit
         THEN [produced |-> now, stop |-> TRUE]
         ELSE YieldTasksOffByOne(Tail(doc_tasks), now, limit)

\* The inner loop of iter_tasks over the tasks of one document: the tasks
\* yielded so far, and whether the generator has returned (stop).
RECURSIVE YieldTasks(_, _, _)
YieldTasks(doc_tasks, produced, limit) ==
    IF doc_tasks = <<>> THEN [produced |-> produced, stop |-> FALSE]
    ELSE LET now == Append(produced, Head(doc_tasks)) IN
         IF LimitApplies(limit) /\ Len(now) >= limit
         THEN [produced |-> now, stop |-> TRUE]
         ELSE YieldTasks(Tail(doc_tasks), now, limit)

\* The outer loop of iter_tasks over docs.
RECURSIVE IterDocs(_, _, _, _)
IterDocs(plugin, docs, produced, limit) ==
    IF docs = <<>> THEN produced
    ELSE LET step == YieldTasks(PluginPrepareTasks(plugin, Head(docs)), produced, limit)
         IN  IF step.stop THEN step.produced
             ELSE IterDocs(plugin, Tail(docs), step.produced, limit)

\* Faulty variant of IterTasks: the documents are walked last to first.
IterTasksReversedDocs(plugin, docs, limit) ==
    LET kept == IF LimitApplies(limit) THEN Slice(docs, limit) ELSE docs IN
    IterDocs(plugin, [i \in 1..Len(kept) |-> kept[Len(kept) + 1 - i]], <<>>, limit)

\* list(iter_tasks(plugin_name, cfg, limit)) for the documents `docs` that
\* plugin.preprocess(cfg) returned.
IterTasks(plugin, docs, limit) ==
    IterDocs(plugin,
             IF LimitApplies(limit) THEN Slice(docs, limit) ELSE docs,
             <<>>, limit)

\* run_preprocess_only: the docs it returns.
RunPreprocessOnlyDocs(docs, limit) ==
    IF LimitApplies(limit) THEN Slice(docs, limit) ELSE docs

\* The inner loop of run_prepare_only over the tasks of one document
\* (lines 77-80): tasks after the loop.
RECURSIVE AppendTasks(_, _, _)
AppendTasks(doc_tasks, tasks_so_far, limit) ==
    IF doc_tasks = <<>> THEN tasks_so_far
    ELSE LET now == Append(tasks_so_far, Head(doc_tasks)) IN
         IF LimitApplies(limit) /\ Len(now) >= limit
         THEN now
         ELSE AppendTasks(Tail(doc_tasks), now, limit)

\* Faulty variant of PrepareDocs: the outer loop has no break of its own.
RECURSIVE PrepareDocsNoOuterBreak(_, _, _, _)
PrepareDocsNoOuterBreak(plugin, docs, tasks_so_far, limit) ==
    IF docs = <<>> THEN tasks_so_far
    ELSE PrepareDocsNoOuterBreak(
            plugin, Tail(docs),
            AppendTasks(PluginPrepareTasks(plugin, Head(docs)), tasks_so_far, limit),
            limit)

\* The outer loop of run_prepare_only over docs (lines 76-82).
RECURSIVE PrepareDocs(_, _, _, _)
PrepareDocs(plugin, docs, tasks_so_far, limit) ==
    IF docs = <<>> THEN tasks_so_far
    ELSE LET now == AppendTasks(PluginPrepareTasks(plugin, Head(docs)),
                                tasks_so_far, limit)
         IN  IF LimitApplies(limit) /\ Len(now) >= limit
             THEN now
             ELSE PrepareDocs(plugin, Tail(docs), now, limit)

\* run_prepare_only: the tasks it returns for the documents `docs` that
\* plugin.preprocess(cfg) returned.
RunPrepareOnlyTasks(plugin, docs, limit) ==
    PrepareDocs(plugin,
                IF LimitApplies(limit) THEN Slice(docs, limit) ELSE docs,
                <<>>, limit)

(***************************************************************************)
(* evaluator/openai_runner.py, evaluator/anthropic_runner.py               *)
(***************************************************************************)
\* `msg.content or "{}"`
ContentOrEmpty(msg) == IF msg.content \in {NoneStr, ""} THEN "{}" ELSE msg.content

\* DetailedEvaluation.model_validate_json(text), and
\* DetailedEvaluation.model_validate(json.loads(text)): ok is FALSE when either
\* step raises; error is the exception.
ValidateText(text) ==
    LET loaded == JsonLoads(text) IN
    IF ~ loaded.ok THEN [ok |-> FALSE, error |-> "JSONDecodeError", evaluation |-> None]
    ELSE IF ~ ModelValidate(loaded.obj)
    THEN [ok |-> FALSE, error |-> "ValidationError", evaluation |-> None]
    ELSE [ok |-> TRUE, error |-> "", evaluation |-> ModelDump(loaded.obj)]

\* The try block both runners share (openai_runner.py lines 98-108,
\* anthropic_runner.py lines 102-110).
ParseToolCallOrContent(msg) ==
    IF msg.tool_calls # <<>>
    THEN ValidateText(msg.tool_calls[1])
    ELSE ValidateText(ContentOrEmpty(msg))

\* Faulty variant of OpenAIParse: the try block alone, without the parse of
\* the message content that follows its failure.
OpenAIParseNoRetry(msg) ==
    IF msg.tool_calls # <<>>
    THEN ValidateText(msg.tool_calls[1])
    ELSE ValidateText(ContentOrEmpty(msg))

\* OpenAIEvaluator.evaluate lines 98-115: the try block, then the last-resort
\* parse of the message content.
OpenAIParse(msg) ==
    LET first == ParseToolCallOrContent(msg) IN
    IF first.ok THEN first ELSE ValidateText(ContentOrEmpty(msg))

\* AnthropicEvaluator.evaluate lines 102-114: the try block alone.
AnthropicParse(msg) == ParseToolCallOrContent(msg)

\* The token_usage dict built from completion.usage.
TokenUsage(usage) ==
    IF usage = None THEN EmptyObject
    ELSE [prompt_tokens |-> usage.prompt_tokens,
          completion_tokens |-> usage.completion_tokens,
          total_tokens |-> usage.total_tokens]

\* The result appended for a task whose output parsed (lines 149-154).
SuccessResult(task, parsed, usage) ==
    [document_idx |-> task[1],
     model_evaluated |-> task[4],
     evaluation_data |-> parsed,
     token_usage |-> TokenUsage(usage)]

\* The result appended for a task whose output did not parse (lines 125-132).
FailureResult(task, msg, usage) ==
    [document_idx |-> task[1],
     model_evaluated |-> task[4],
     evaluation_data |-> None,
     token_usage |-> TokenUsage(usage),
     error |-> <<"Pydantic parsing error: ", ValidateText(ContentOrEmpty(msg)).error>>,
     raw_output |-> ContentOrEmpty(msg)]

\* Faulty variant of TotalTokensOf: the prompt_tokens count is summed.
TotalTokensOfPrompt(r) ==
    IF "token_usage" \notin DOMAIN r THEN 0
    ELSE IF "prompt_tokens" \notin DOMAIN r.token_usage THEN 0
    ELSE IF r.token_usage.prompt_tokens = NoneInt THEN 0
    ELSE r.token_usage.prompt_tokens

\* (r.get("token_usage", {}) or {}).get("total_tokens", 0) or 0
TotalTokensOf(r) ==
    IF "token_usage" \notin DOMAIN r THEN 0
    ELSE IF "total_tokens" \notin DOMAIN r.token_usage THEN 0
    ELSE IF r.token_usage.total_tokens = NoneInt THEN 0
    ELSE r.token_usage.total_tokens

RECURSIVE SumTotalTokens(_)
SumTotalTokens(results_list) ==
    IF results_list = <<>> THEN 0
    ELSE TotalTokensOf(Head(results_list)) + SumTotalTokens(Tail(results_list))

(***************************************************************************)
(* validation/create_expert_review_task.py                                 *)
(***************************************************************************)
\* create_expert_review_task(...): review_id f"{doc_id}_{model_name}" is the
\* pair <<doc_id, model_name>>.
CreateExpertReviewTask(doc_id, model_name, original_text, extraction_to_evaluate, evaluation_object) ==
    [review_id |-> <<doc_id, model_name>>,
     document_info |-> [doc_id |-> doc_id, full_source_text |-> original_text],
     extraction_info |-> [model_evaluated |-> model_name,
                          extraction_to_evaluate |-> extraction_to_evaluate],
     confidence_level |->
        [score |-> evaluation_object.confidence_level.score,
         justification |-> evaluation_object.confidence_level.justification],
     judgments_to_review |->
        [criterion \in DOMAIN evaluation_object.scores |->
            [ai_score |-> evaluation_object.scores[criterion],
             ai_justification |-> evaluation_object.justifications[criterion],
             expert_feedback |-> [score_validity_1_to_5 |-> " ",
                                  explanation_quality |-> " ",
                                  optional_notes |-> " "]]]]

(***************************************************************************)
(* json_to_excel.py                                                        *)
(***************************************************************************)
\* The order in which a judgments_to_review dict is iterated: the insertion
\* order of its keys, which is the field order of Scores.
CriterionOrder ==
    <<"factual_accuracy", "completeness", "relevance_and_conciseness",
      "clarity_and_readability", "source_faithfulness", "overall_coherence">>

\* A decoded JSON document: a list (its items) or an object (its keys in
\* file order, and its members).
JsonList(items) == [kind |-> "list", items |-> items]
JsonDict(keys, members) == [kind |-> "object", keys |-> keys, members |-> members]

\* common_info of a task (lines 30-37).
CommonInfo(task) ==
    [doc_id |-> task.document_info.doc_id,
     model_evaluated |-> task.extraction_info.model_evaluated,
     full_source_text |-> task.document_info.full_source_text,
     extraction_to_evaluate |-> task.extraction_info.extraction_to_evaluate,
     confidence_level |-> task.confidence_level.score,
     confidence_level_justification |-> task.confidence_level.justification]

\* The row of one criterion of a task (lines 41-51); review_id
\* f"{task['review_id']}_{criterion}" is the pair <<review_id, criterion>>.
ExcelRow(task, criterion) ==
    [review_id |-> <<task.review_id, criterion>>,
     criterion |-> criterion,
     ai_score |-> task.judgments_to_review[criterion].ai_score,
     ai_justification |-> task.judgments_to_review[criterion].ai_justification,
     common_info |-> CommonInfo(task),
     expert_score_validity |-> "",
     expert_explanation_quality |-> "",
     expert_optional_notes |-> ""]

\* The rows of one task: one per key of judgments_to_review, in dict order.
RECURSIVE RowsOfTask(_, _)
RowsOfTask(task, i) ==
    IF i = 0 THEN <<>>
    ELSE IF CriterionOrder[i] \in DOMAIN task.judgments_to_review
    THEN Append(RowsOfTask(task, i - 1), ExcelRow(task, CriterionOrder[i]))
    ELSE RowsOfTask(task, i - 1)

\* rows_for_excel after the loop over a list of tasks (lines 27-52).
RECURSIVE RowsForExcel(_, _)
RowsForExcel(items, n) ==
    IF n = 0 THEN <<>>
    ELSE RowsForExcel(items, n - 1) \o RowsOfTask(items[n], Len(CriterionOrder))

\* create_excel_for_review on a decoded document.  Iterating an object yields
\* its keys, and subscripting a key (a str) with 'document_info' raises
\* TypeError at line 31; no rows means no file is written (lines 53-55).
CreateExcelForReview(json_data) ==
    IF json_data.kind = "object"
    THEN IF json_data.keys = <<>>
         THEN [stage |-> "no_data", json_data |-> json_data, rows |-> <<>>]
         ELSE [stage |-> "raised", json_data |-> json_data, rows |-> <<>>,
               error |-> "TypeError"]
    ELSE LET rows == RowsForExcel(json_data.items, Len(json_data.items)) IN
         IF rows = <<>>
         THEN [stage |-> "no_data", json_data |-> json_data, rows |-> <<>>]
         ELSE [stage |-> "written", json_data |-> json_data, rows |-> rows]

(***************************************************************************)
(* The run: main() and run_evaluate of main.py, with the evaluate loop of  *)
(* the configured evaluator inlined at its call (main.py line 105).        *)
(***************************************************************************)
StepSamples == {"evaluate", "preprocess", "prepare", "validate"}
DatasetSamples == {"BASSE", "flares", "XSUM"}
ProviderSamples == {"openai", "anthropic", "mistral"}
LimitSamples == {NoneInt} \cup 0..MaxLimit

Configs ==
    [step : StepSamples, dataset : DatasetSamples, limit : LimitSamples,
     provider : ProviderSamples, has_key : BOOLEAN]

NoReturn == [kind |-> "none"]
BasseIdle == [stage |-> "idle"]
FlaresIdle == [stage |-> "idle"]
ExcelIdle == [stage |-> "idle"]
CallIdle == [fn |-> "none"]

Init ==
    /\ pc = "main"
    /\ cfg \in Configs
    /\ tasks = <<>>
    /\ k = 0
    /\ completion = None
    /\ evaluation = None
    /\ results = <<>>
    /\ llm_calls = 0
    /\ exc = "none"
    /\ results_file = None
    /\ review_objects = <<>>
    /\ review_file = None
    /\ returned = NoReturn
    /\ basse = BasseIdle
    /\ flares = FlaresIdle
    /\ excel = ExcelIdle
    /\ call = CallIdle

\* An exception that nothing catches ends the process.
Raise(e) ==
    /\ pc' = "raised"
    /\ exc' = e

\* main() line 183: an unsupported step.
MainUnsupportedStep ==
    /\ pc = "main"
    /\ cfg.step \notin {"all", "evaluate", "preprocess", "prepare"}
    /\ Raise("ValueError")
    /\ UNCHANGED <<cfg, tasks, k, completion, evaluation, results, llm_calls,
                   results_file, review_objects, review_file, returned, basse, flares, excel, call>>

\* run_preprocess_only(dataset, cfg, limit), for a dataset of n records.
RunPreprocessOnly ==
    /\ pc = "main"
    /\ cfg.step = "preprocess"
    /\ IF GetPlugin(cfg.dataset) = "KeyError"
       THEN Raise("KeyError") /\ UNCHANGED returned
       ELSE \E n \in 0..MaxDocs :
                /\ returned' =
                      [kind |-> "docs",
                       value |-> RunPreprocessOnlyDocs(
                                    PluginPreprocess(GetPlugin(cfg.dataset), n),
                                    cfg.limit)]
                /\ pc' = "done"
                /\ UNCHANGED exc
    /\ UNCHANGED <<cfg, tasks, k, completion, evaluation, results, llm_calls,
                   results_file, review_objects, review_file, basse, flares, excel, call>>

\* run_prepare_only(dataset, cfg, limit), for a dataset of n records.
RunPrepareOnly ==
    /\ pc = "main"
    /\ cfg.step = "prepare"
    /\ IF GetPlugin(cfg.dataset) = "KeyError"
       THEN Raise("KeyError") /\ UNCHANGED returned
       ELSE \E n \in 0..MaxDocs :
                /\ returned' =
                      [kind |-> "tasks",
                       value |-> RunPrepareOnlyTasks(
                                    GetPlugin(cfg.dataset),
                                    PluginPreprocess(GetPlugin(cfg.dataset), n),
                                    cfg.limit)]
                /\ pc' = "done"
                /\ UNCHANGED exc
    /\ UNCHANGED <<cfg, tasks, k, completion, evaluation, results, llm_calls,
                   results_file, review_objects, review_file, basse, flares, excel, call>>

\* get_evaluator(cfg) (run_evaluate line 101): the provider is looked up, then
\* the evaluator's __init__ resolves the API key.
GetEvaluator ==
    /\ pc = "main"
    /\ cfg.step \in {"all", "evaluate"}
    /\ IF cfg.provider \notin {"openai", "anthropic", "claude"}
       THEN Raise("ValueError")
       ELSE IF ~ cfg.has_key
       THEN Raise("RuntimeError: API key is not set")
       ELSE pc' = "build_tasks" /\ UNCHANGED exc
    /\ UNCHANGED <<cfg, tasks, k, completion, evaluation, results, llm_calls,
                   results_file, review_objects, review_file, returned, basse, flares, excel, call>>

\* tasks = list(iter_tasks(dataset, cfg, limit=limit)) (run_evaluate line 104),
\* for a dataset of n records.
BuildTasks ==
    /\ pc = "build_tasks"
    /\ IF GetPlugin(cfg.dataset) = "KeyError"
       THEN Raise("KeyError") /\ UNCHANGED tasks
       ELSE \E n \in 0..MaxDocs :
                LET built == IterTasks(GetPlugin(cfg.dataset),
                                       PluginPreprocess(GetPlugin(cfg.dataset), n),
                                       cfg.limit)
                IN  /\ Len(built) <= MaxTasks
                    /\ tasks' = built
                    /\ pc' = "pending"
                    /\ UNCHANGED exc
    /\ UNCHANGED <<cfg, k, completion, evaluation, results, llm_calls,
                   results_file, review_objects, review_file, returned, basse, flares, excel, call>>

\* plugin.preprocess(cfg) raising for a missing dataset file or path, inside
\* list(iter_tasks(...)).
BuildTasksMissingFile ==
    /\ pc = "build_tasks"
    /\ GetPlugin(cfg.dataset) # "KeyError"
    /\ Raise("FileNotFoundError")
    /\ UNCHANGED <<cfg, tasks, k, completion, evaluation, results, llm_calls,
                   results_file, review_objects, review_file, returned, basse, flares, excel, call>>

\* get_evaluator: the class chosen for the provider.
EvaluatorOf(provider) ==
    CASE provider = "openai" -> "OpenAIEvaluator"
      [] provider \in {"anthropic", "claude"} -> "AnthropicEvaluator"
      [] OTHER -> "ValueError"

\* Faulty variant of EvaluateRequest: the next task is requested as soon as
\* the current one has parsed, before its result is appended.
EvaluateRequestEarly ==
    /\ pc \in {"pending", "parsed"}
    /\ k < Len(tasks)
    /\ k' = k + 1
    /\ llm_calls' = llm_calls + 1
    /\ completion' \in Completions
    /\ pc' = "requested"
    /\ UNCHANGED <<cfg, tasks, evaluation, results, exc,
                   results_file, review_objects, review_file, returned, basse, flares, excel, call>>

\* evaluate, lines 68-95: the next task is taken and the client call returns a
\* completion.
EvaluateRequest ==
    /\ pc = "pending"
    /\ k < Len(tasks)
    /\ k' = k + 1
    /\ llm_calls' = llm_calls + 1
    /\ completion' \in Completions
    /\ pc' = "requested"
    /\ UNCHANGED <<cfg, tasks, evaluation, results, exc,
                   results_file, review_objects, review_file, returned, basse, flares, excel, call>>

\* Faulty variant of EvaluateRequestRaises: the API key is resolved at the
\* first client call instead of in __init__.
EvaluateRequestRaisesNoKey ==
    /\ pc = "pending"
    /\ k < Len(tasks)
    /\ k' = k + 1
    /\ llm_calls' = llm_calls + 1
    /\ Raise("RuntimeError: API key is not set")
    /\ UNCHANGED <<cfg, tasks, completion, evaluation, results,
                   results_file, review_objects, review_file, returned, basse, flares, excel, call>>

\* evaluate, lines 76-95: the client call raises (network, authentication,
\* rate limit).  No try encloses the call.
EvaluateRequestRaises ==
    /\ pc = "pending"
    /\ k < Len(tasks)
    /\ k' = k + 1
    /\ llm_calls' = llm_calls + 1
    /\ Raise("APIError")
    /\ UNCHANGED <<cfg, tasks, completion, evaluation, results,
                   results_file, review_objects, review_file, returned, basse, flares, excel, call>>

\* The parse of the completion by the configured evaluator.
EvaluatorParse(provider, msg) ==
    IF EvaluatorOf(provider) = "OpenAIEvaluator"
    THEN OpenAIParse(msg) ELSE AnthropicParse(msg)

\* evaluate, openai_runner.py lines 98-115, anthropic_runner.py lines 102-110.
EvaluateParse ==
    /\ pc = "requested"
    /\ LET parsed == EvaluatorParse(cfg.provider, completion.message) IN
       IF parsed.ok
       THEN evaluation' = parsed.evaluation /\ pc' = "parsed"
       ELSE UNCHANGED evaluation /\ pc' = "parse_failed"
    /\ UNCHANGED <<cfg, tasks, k, completion, results, llm_calls, exc,
                   results_file, review_objects, review_file, returned, basse, flares, excel, call>>

\* Faulty variant of EvaluateRecord: the result is built from the first task.
EvaluateRecordFirstTask ==
    /\ pc = "parsed"
    /\ results' = Append(results, SuccessResult(tasks[1], evaluation, completion.usage))
    /\ pc' = "pending"
    /\ UNCHANGED <<cfg, tasks, k, completion, evaluation, llm_calls, exc,
                   results_file, review_objects, review_file, returned, basse, flares, excel, call>>

\* evaluate, openai_runner.py lines 136-154, anthropic_runner.py lines 116-134.
EvaluateRecord ==
    /\ pc = "parsed"
    /\ results' = Append(results, SuccessResult(tasks[k], evaluation, completion.usage))
    /\ pc' = "pending"
    /\ UNCHANGED <<cfg, tasks, k, completion, evaluation, llm_calls, exc,
                   results_file, review_objects, review_file, returned, basse, flares, excel, call>>

\* Faulty variant of OpenAIRecordFailure: the failure is raised, as the Anthropic
\* runner does.
OpenAIRecordFailureRaises ==
    /\ pc = "parse_failed"
    /\ EvaluatorOf(cfg.provider) = "OpenAIEvaluator"
    /\ pc' = "raised"
    /\ exc' = "RuntimeError: Failed to parse model output"
    /\ UNCHANGED <<cfg, tasks, k, completion, evaluation, results, llm_calls,
                   results_file, review_objects, review_file, returned, basse, flares, excel, call>>

\* OpenAIEvaluator.evaluate, lines 116-133: the failure is recorded.
OpenAIRecordFailure ==
    /\ pc = "parse_failed"
    /\ EvaluatorOf(cfg.provider) = "OpenAIEvaluator"
    /\ results' = Append(results,
                         FailureResult(tasks[k], completion.message, completion.usage))
    /\ pc' = "pending"
    /\ UNCHANGED <<cfg, tasks, k, completion, evaluation, llm_calls, exc,
                   results_file, review_objects, review_file, returned, basse, flares, excel, call>>

\* AnthropicEvaluator.evaluate, lines 111-114: the failure is raised.
AnthropicRaise ==
    /\ pc = "parse_failed"
    /\ EvaluatorOf(cfg.provider) = "AnthropicEvaluator"
    /\ Raise("RuntimeError: Failed to parse model output")
    /\ UNCHANGED <<cfg, tasks, k, completion, evaluation, results, llm_calls,
                   results_file, review_objects, review_file, returned, basse, flares, excel, call>>

\* evaluate returns results once the task iterator is exhausted.
EvaluateReturn ==
    /\ pc = "pending"
    /\ k = Len(tasks)
    /\ pc' = "evaluated"
    /\ UNCHANGED <<cfg, tasks, k, completion, evaluation, results, llm_calls, exc,
                   results_file, review_objects, review_file, returned, basse, flares, excel, call>>

\* run_evaluate lines 108-111: final.
Final(results_list) ==
    [total_tokens |-> SumTotalTokens(results_list), results |-> results_list]

\* Faulty variant of WriteResults: the write is put off until after the
\* review step.
WriteResultsDeferred ==
    /\ pc = "evaluated"
    /\ pc' = "results_written"
    /\ UNCHANGED <<cfg, tasks, k, completion, evaluation, results, llm_calls, exc,
                   results_file, review_objects, review_file, returned, basse, flares,
                   excel, call>>

\* run_evaluate lines 107-115: the results artifact is written.
WriteResults ==
    /\ pc = "evaluated"
    /\ results_file' = Final(results)
    /\ pc' = "results_written"
    /\ UNCHANGED <<cfg, tasks, k, completion, evaluation, results, llm_calls, exc,
                   review_objects, review_file, returned, basse, flares, excel, call>>

\* run_evaluate line 118: validation.generate_review_task is read.
ReadReviewFlag ==
    /\ pc = "results_written"
    /\ \E generate_review_task \in BOOLEAN :
          IF generate_review_task
          THEN pc' = "review_loop" /\ UNCHANGED returned
          ELSE pc' = "done" /\ returned' = [kind |-> "final", value |-> Final(results)]
    /\ UNCHANGED <<cfg, tasks, k, completion, evaluation, results, llm_calls, exc,
                   results_file, review_objects, review_file, basse, flares, excel, call>>

\* run_evaluate lines 122-133: one iteration over zip(results_list, tasks).
BuildReviewObject ==
    /\ pc = "review_loop"
    /\ Len(review_objects) < Min(Len(results), Len(tasks))
    /\ LET r == results[Len(review_objects) + 1]
           t == tasks[Len(review_objects) + 1]
       IN  IF ModelValidate(r.evaluation_data)
           THEN /\ review_objects' =
                      Append(review_objects,
                             CreateExpertReviewTask(t[1], t[4], t[2], t[3],
                                                    ModelDump(r.evaluation_data)))
                /\ UNCHANGED <<pc, exc>>
           ELSE Raise("ValidationError") /\ UNCHANGED review_objects
    /\ UNCHANGED <<cfg, tasks, k, completion, evaluation, results, llm_calls,
                   results_file, review_file, returned, basse, flares, excel, call>>

\* run_evaluate lines 135-146: the review artifact is written.
WriteReview ==
    /\ pc = "review_loop"
    /\ Len(review_objects) = Min(Len(results), Len(tasks))
    /\ review_file' =
          [review_batch_info |-> [dataset |-> cfg.dataset, provider |-> cfg.provider],
           review_items |-> review_objects]
    /\ pc' = "review_written"
    /\ UNCHANGED <<cfg, tasks, k, completion, evaluation, results, llm_calls, exc,
                   results_file, review_objects, returned, basse, flares, excel, call>>

\* run_evaluate lines 148-159: the optional spreadsheet export of the review
\* file just written, whose failure is caught and printed as a warning, and
\* the return of final.
ExportAndReturn ==
    /\ pc = "review_written"
    /\ pc' = "done"
    /\ \E generate_excel \in BOOLEAN :
          IF generate_excel
          THEN excel' = CreateExcelForReview(
                           JsonDict(<<"review_batch_info", "review_items">>, review_file))
          ELSE UNCHANGED excel
    /\ returned' = [kind |-> "final", value |-> Final(results)]
    /\ UNCHANGED <<cfg, tasks, k, completion, evaluation, results, llm_calls, exc,
                   results_file, review_objects, review_file, basse, flares, call>>

Next ==
    \/ MainUnsupportedStep
    \/ RunPreprocessOnly
    \/ RunPrepareOnly
    \/ GetEvaluator
    \/ BuildTasks
    \/ BuildTasksMissingFile
    \/ EvaluateRequest
    \/ EvaluateRequestRaises
    \/ EvaluateParse
    \/ EvaluateRecord
    \/ OpenAIRecordFailure
    \/ AnthropicRaise
    \/ EvaluateReturn
    \/ WriteResults
    \/ ReadReviewFlag
    \/ BuildReviewObject
    \/ WriteReview
    \/ ExportAndReturn

Spec == Init /\ [][Next]_vars

(***************************************************************************)
(* BASSE ingestion and task preparation on bounded input files.            *)
(***************************************************************************)
\* The lines of a BASSE file.  A line is malformed (json.loads raises), or
\* decodes to a value the loop body raises on (a JSON array, an object whose
\* model_extractions is null), or is an object whose model_extractions holds
\* a {"summ": ...} entry for each model of `present`: no model, one model or
\* every model.
BasseObject(idx, present) ==
    [idx |-> idx,
     round |-> "r1",
     original_document |-> "X",
     model_extractions |->
        [m \in {<<BasseModels[j], "-5w1h">> : j \in present} |->
            [summ |-> <<"S", idx, m[1]>>]]]

BasseLineSamples(idx) ==
    {[wellformed |-> FALSE, raises |-> FALSE, obj |-> EmptyObject],
     [wellformed |-> TRUE, raises |-> TRUE, obj |-> EmptyObject]}
    \cup {[wellformed |-> TRUE, raises |-> FALSE, obj |-> BasseObject(idx, present)] :
            present \in {p \in SUBSET (1..Len(BasseModels)) :
                           Cardinality(p) <= 1 \/ p = 1..Len(BasseModels)}}

\* A run of no pipeline step: the pipeline variables of a dataset-only run.
PipelineIdle ==
    /\ pc = "idle"
    /\ cfg = [step |-> "idle"]
    /\ tasks = <<>>
    /\ k = 0
    /\ completion = None
    /\ evaluation = None
    /\ results = <<>>
    /\ llm_calls = 0
    /\ exc = "none"
    /\ results_file = None
    /\ review_objects = <<>>
    /\ review_file = None
    /\ returned = NoReturn

pipeline_vars == <<pc, cfg, tasks, k, completion, evaluation, results, llm_calls, exc,
                   results_file, review_objects, review_file, returned>>

InitBasse ==
    /\ PipelineIdle
    /\ flares = FlaresIdle
    /\ excel = ExcelIdle
    /\ call = CallIdle
    /\ basse = [stage |-> "reading", lines |-> <<>>, line_number |-> 0,
                data_list |-> <<>>, skipped |-> 0, tasks_by_doc |-> <<>>]

\* get_list_of_objects_from_basse_dataset, lines 23-25: the file is missing.
BasseMissingFile ==
    /\ basse.stage = "reading"
    /\ basse.line_number = 0
    /\ basse' = [basse EXCEPT !.stage = "raised"]
    /\ UNCHANGED <<pipeline_vars, flares, excel, call>>

\* Faulty variant of BasseReadLine: a line that is skipped also empties
\* data_list.
BasseReadLineDropsEarlier ==
    /\ basse.stage = "reading"
    /\ basse.line_number < MaxLines
    /\ \E line \in BasseLineSamples(basse.line_number + 1) :
          basse' = IF line.wellformed /\ ~ line.raises
                   THEN [basse EXCEPT !.lines = Append(@, line),
                                      !.line_number = @ + 1,
                                      !.data_list = Append(@, BasseDocument(line.obj))]
                   ELSE [basse EXCEPT !.lines = Append(@, line),
                                      !.line_number = @ + 1,
                                      !.data_list = <<>>,
                                      !.skipped = @ + 1]
    /\ UNCHANGED <<pipeline_vars, flares, excel, call>>

\* get_list_of_objects_from_basse_dataset, lines 28-57: one line of the file
\* is read; a line that does not decode, or whose processing raises, is
\* skipped with a warning.
BasseReadLine ==
    /\ basse.stage = "reading"
    /\ basse.line_number < MaxLines
    /\ \E line \in BasseLineSamples(basse.line_number + 1) :
          basse' = IF line.wellformed /\ ~ line.raises
                   THEN [basse EXCEPT !.lines = Append(@, line),
                                      !.line_number = @ + 1,
                                      !.data_list = Append(@, BasseDocument(line.obj))]
                   ELSE [basse EXCEPT !.lines = Append(@, line),
                                      !.line_number = @ + 1,
                                      !.skipped = @ + 1]
    /\ UNCHANGED <<pipeline_vars, flares, excel, call>>

\* get_list_of_objects_from_basse_dataset, line 59: the end of the file.
BasseReturn ==
    /\ basse.stage = "reading"
    /\ basse' = [basse EXCEPT !.stage = "returned"]
    /\ UNCHANGED <<pipeline_vars, flares, excel, call>>

\* plugin.prepare_tasks(doc) for every document of data_list.
BassePrepare ==
    /\ basse.stage = "returned"
    /\ basse' = [basse EXCEPT
                    !.stage = "prepared",
                    !.tasks_by_doc = [i \in 1..Len(basse.data_list) |->
                                         PrepareBasseTasks(basse.data_list[i])]]
    /\ UNCHANGED <<pipeline_vars, flares, excel, call>>

NextBasse ==
    \/ BasseMissingFile
    \/ BasseReadLine
    \/ BasseReturn
    \/ BassePrepare

SpecBasse == InitBasse /\ [][NextBasse]_vars

(***************************************************************************)
(* FLARES preprocessing and task preparation on bounded tag lists.         *)
(***************************************************************************)
TagSamples ==
    {[W5H1_Label |-> "WHO", Reliability_Label |-> "confiable",
      Tag_Text |-> "who-late", Tag_Start |-> 4],
     [W5H1_Label |-> "WHO", Reliability_Label |-> "confiable",
      Tag_Text |-> "who-early", Tag_Start |-> 1],
     [W5H1_Label |-> "WHO", Reliability_Label |-> "no confiable",
      Tag_Text |-> "who-unreliable", Tag_Start |-> 0],
     [W5H1_Label |-> "WHAT", Reliability_Label |-> "confiable",
      Tag_Text |-> "what", Tag_Start |-> 2],
     [W5H1_Label |-> "WHEN", Reliability_Label |-> "confiable",
      Tag_Text |-> "when", Tag_Start |-> 3],
     [W5H1_Label |-> "WHERE", Reliability_Label |-> "confiable",
      Tag_Text |-> "where", Tag_Start |-> 1],
     [W5H1_Label |-> "WHERE", Reliability_Label |-> "semiconfiable",
      Tag_Text |-> "where-unreliable", Tag_Start |-> 0],
     [W5H1_Label |-> "WHY", Reliability_Label |-> "confiable",
      Tag_Text |-> "why", Tag_Start |-> 0],
     [W5H1_Label |-> "HOW", Reliability_Label |-> "confiable",
      Tag_Text |-> "how", Tag_Start |-> 6]}

\* The orders in which Python can iterate the set REQUIRED_LABELS.
LabelOrders ==
    {order \in [1..Cardinality(REQUIRED_LABELS) -> REQUIRED_LABELS] :
        \A i, j \in DOMAIN order : i # j => order[i] # order[j]}

InitFlares ==
    /\ PipelineIdle
    /\ basse = BasseIdle
    /\ excel = ExcelIdle
    /\ call = CallIdle
    /\ flares = [stage |-> "reading", Tags |-> <<>>, merged |-> <<>>,
                 optimal |-> <<>>, flat |-> <<>>, tasks |-> <<>>]

\* The Tags list of the record on the line being decoded: every ordering of
\* every set of at most MaxTags sample tags, one tag at a time.
FlaresReadTag ==
    /\ flares.stage = "reading"
    /\ Len(flares.Tags) < MaxTags
    /\ \E tag \in TagSamples :
          /\ \A i \in 1..Len(flares.Tags) : flares.Tags[i] # tag
          /\ flares' = [flares EXCEPT !.Tags = Append(@, tag)]
    /\ UNCHANGED <<pipeline_vars, basse, excel, call>>

\* get_list_of_objects_from_tags_jsonl on a file of one record: the decoded
\* record is processed and appended.
FlaresProcess ==
    /\ flares.stage = "reading"
    /\ flares' = [flares EXCEPT
                    !.stage = "merged",
                    !.merged = <<ProcessFlaresObject(
                                    [Id |-> 1, Text |-> "T", Tags |-> flares.Tags])>>]
    /\ UNCHANGED <<pipeline_vars, basse, excel, call>>

\* select_best_5w1h_combination(merged).
FlaresSelect ==
    /\ flares.stage = "merged"
    /\ \E label_order \in LabelOrders :
          flares' = [flares EXCEPT
                        !.stage = "selected",
                        !.optimal = SelectBest5w1hCombination(flares.merged, label_order)]
    /\ UNCHANGED <<pipeline_vars, basse, excel, call>>

\* flatten_optimal_objects(optimal).
FlaresFlatten ==
    /\ flares.stage = "selected"
    /\ flares' = [flares EXCEPT !.stage = "flat",
                                !.flat = FlattenOptimalObjects(flares.optimal)]
    /\ UNCHANGED <<pipeline_vars, basse, excel, call>>

\* plugin.prepare_tasks(doc) for every document of flat.
FlaresPrepare ==
    /\ flares.stage = "flat"
    /\ flares' = [flares EXCEPT
                    !.stage = "prepared",
                    !.tasks = [i \in 1..Len(flares.flat) |->
                                  PrepareFlaresTasks(flares.flat[i])]]
    /\ UNCHANGED <<pipeline_vars, basse, excel, call>>

NextFlares ==
    \/ FlaresReadTag
    \/ FlaresProcess
    \/ FlaresSelect
    \/ FlaresFlatten
    \/ FlaresPrepare

SpecFlares == InitFlares /\ [][NextFlares]_vars

(***************************************************************************)
(* create_excel_for_review run on its own (json_to_excel.py as a script)   *)
(* on bounded review files.                                                *)
(***************************************************************************)
\* The review tasks create_expert_review_task builds from valid evaluations.
ReviewTaskSamples ==
    {CreateExpertReviewTask(doc_id, model_name, "X", "S", evaluation_object) :
        doc_id \in 1..2, model_name \in {<<"gpt4o">>, <<"claude">>},
        evaluation_object \in {GoodA, GoodB}}

ReviewItemLists == UNION {[1..n -> ReviewTaskSamples] : n \in 0..MaxItems}

\* The review bundle run_evaluate writes for a list of review objects.
ReviewBundle(items) ==
    JsonDict(<<"review_batch_info", "review_items">>,
             [review_batch_info |-> [dataset |-> "BASSE", provider |-> "openai"],
              review_items |-> items])

\* The documents a review file can hold: a list of review tasks, or a bundle.
ExcelInputs ==
    {JsonList(items) : items \in ReviewItemLists}
    \cup {ReviewBundle(items) : items \in ReviewItemLists}

InitExcel ==
    /\ PipelineIdle
    /\ basse = BasseIdle
    /\ flares = FlaresIdle
    /\ call = CallIdle
    /\ excel = [stage |-> "start"]

\* Lines 16-18: the file is read and decoded.
ExcelLoad ==
    /\ excel.stage = "start"
    /\ \E json_data \in ExcelInputs :
          excel' = [stage |-> "loaded", json_data |-> json_data]
    /\ UNCHANGED <<pipeline_vars, basse, flares, call>>

\* Lines 19-24: the file is missing or is not JSON; the function returns.
ExcelLoadFails ==
    /\ excel.stage = "start"
    /\ \E error \in {"FileNotFoundError", "JSONDecodeError"} :
          excel' = [stage |-> "returned", error |-> error]
    /\ UNCHANGED <<pipeline_vars, basse, flares, call>>

\* Lines 26-118: the rows are built and the workbook is written.
ExcelExport ==
    /\ excel.stage = "loaded"
    /\ excel' = CreateExcelForReview(excel.json_data)
    /\ UNCHANGED <<pipeline_vars, basse, flares, call>>

NextExcel ==
    \/ ExcelLoad
    \/ ExcelLoadFails
    \/ ExcelExport

SpecExcel == InitExcel /\ [][NextExcel]_vars

(***************************************************************************)
(* core/utils.py: result_filename and review_filename.  A str is the       *)
(* sequence of its characters; f-string pieces that hold none of the       *)
(* characters of interest ("_review.json", the timestamp) are one element. *)
(***************************************************************************)
LowerChars == <<"a", "b", "e", "f", "l", "r", "s", "x">>
UpperChars == <<"A", "B", "E", "F", "L", "R", "S", "X">>

\* str.upper() of one character.
CharUpper(c) ==
    IF \E i \in 1..Len(LowerChars) : LowerChars[i] = c
    THEN UpperChars[CHOOSE i \in 1..Len(LowerChars) : LowerChars[i] = c]
    ELSE c

\* s.upper()
StrUpper(s) == [i \in 1..Len(s) |-> CharUpper(s[i])]

\* s.replace(old, new) for one-character old and new.
StrReplace(s, old, new) == [i \in 1..Len(s) |-> IF s[i] = old THEN new ELSE s[i]]

\* timestamp(): "%Y-%m-%d_%H-%M-%S" of the clock.
Timestamp == <<"2026-01-01_00-00-00">>

\* result_filename(env, dataset, provider, model, results_dir).name
ResultFilename(env, dataset, provider, model) ==
    LET dataset_up == StrUpper(dataset)
        provider_norm == StrReplace(StrReplace(provider, "/", "_"), ":", "_")
        model_norm == StrReplace(StrReplace(StrReplace(model, "/", "_"), ":", "_"),
                                 " ", "_")
    IN  Timestamp \o <<"_">> \o env \o <<"_">> \o dataset_up \o <<"_">>
        \o provider_norm \o <<"_">> \o model_norm \o <<".json">>

\* Path.stem: the name without its last suffix.
Stem(name) ==
    IF name # <<>> /\ name[Len(name)] = ".json"
    THEN SubSeq(name, 1, Len(name) - 1) ELSE name

\* review_filename(base_json).name
ReviewFilename(base_json) == Stem(base_json) \o <<"_review.json">>

FileChars == {"a", "/", ":", " "}
FileStrings == UNION {[1..n -> FileChars] : n \in 0..MaxStr}

InitFilename ==
    /\ PipelineIdle
    /\ basse = BasseIdle
    /\ flares = FlaresIdle
    /\ excel = ExcelIdle
    /\ call = [fn |-> "start"]

\* run_evaluate line 113: results_path = result_filename(...).
CallResultFilename ==
    /\ call.fn = "start"
    /\ \E dataset \in {<<"b">>, <<"B">>}, provider \in FileStrings, model \in FileStrings :
          call' = [fn |-> "result_filename", env |-> <<"dev">>, dataset |-> dataset,
                   provider |-> provider, model |-> model,
                   name |-> ResultFilename(<<"dev">>, dataset, provider, model)]
    /\ UNCHANGED <<pipeline_vars, basse, flares, excel>>

\* run_evaluate line 144: review_path = review_filename(results_path).
CallReviewFilename ==
    /\ call.fn = "result_filename"
    /\ call' = [fn |-> "review_filename", base_json |-> call.name,
                name |-> ReviewFilename(call.name)]
    /\ UNCHANGED <<pipeline_vars, basse, flares, excel>>

NextFilename ==
    \/ CallResultFilename
    \/ CallReviewFilename

SpecFilename == InitFilename /\ [][NextFilename]_vars

(***************************************************************************)
(* core/datasets.py: get_plugin on dataset names given character by        *)
(* character.                                                              *)
(***************************************************************************)
\* s.strip() of leading and of trailing spaces.
RECURSIVE LStrip(_)
LStrip(s) == IF s # <<>> /\ Head(s) = " " THEN LStrip(Tail(s)) ELSE s

RECURSIVE RStrip(_)
RStrip(s) ==
    IF s # <<>> /\ s[Len(s)] = " " THEN RStrip(SubSeq(s, 1, Len(s) - 1)) ELSE s

StrStrip(s) == LStrip(RStrip(s))

\* _REGISTRY (lines 60-63), in insertion order.
RegistryKeys == <<(<<"B", "A", "S", "S", "E">>), (<<"F", "L", "A", "R", "E", "S">>)>>

RegistryDict ==
    [key \in {RegistryKeys[i] : i \in 1..Len(RegistryKeys)} |->
        IF key = RegistryKeys[1]
        THEN [name |-> key, preprocess |-> "_basse_preprocess",
              prepare_tasks |-> "_basse_prepare_tasks"]
        ELSE [name |-> key, preprocess |-> "_flares_preprocess",
              prepare_tasks |-> "_flares_prepare_tasks"]]

\* A dataset_name argument: None, or a str.
NoName == [is_none |-> TRUE, chars |-> <<>>]
Name(chars) == [is_none |-> FALSE, chars |-> chars]

\* Faulty variant of LookupPlugin: the name is upper-cased but not stripped.
LookupPluginNoStrip(registry, dataset_name) ==
    LET key == StrUpper(IF dataset_name.is_none THEN <<>> ELSE dataset_name.chars) IN
    IF key \notin DOMAIN registry
    THEN [ok |-> FALSE, error |-> "KeyError",
          message |-> [unknown |-> dataset_name, available |-> RegistryKeys]]
    ELSE [ok |-> TRUE, plugin |-> registry[key]]

\* get_plugin(dataset_name) against the registry (lines 66-70).
LookupPlugin(registry, dataset_name) ==
    LET key == StrUpper(StrStrip(IF dataset_name.is_none THEN <<>>
                                 ELSE dataset_name.chars)) IN
    IF key \notin DOMAIN registry
    THEN [ok |-> FALSE, error |-> "KeyError",
          message |-> [unknown |-> dataset_name, available |-> RegistryKeys]]
    ELSE [ok |-> TRUE, plugin |-> registry[key]]

\* str.lower() of one character.
CharLower(c) ==
    IF \E i \in 1..Len(UpperChars) : UpperChars[i] = c
    THEN LowerChars[CHOOSE i \in 1..Len(UpperChars) : UpperChars[i] = c]
    ELSE c

\* The names looked up: every casing of a few words, padded with spaces.
NameWords ==
    {RegistryKeys[1], RegistryKeys[2], <<"B", "A", "S", "S">>, <<"X", "S">>, <<>>}

Casings(word) ==
    {[i \in 1..Len(word) |-> IF i \in low THEN CharLower(word[i]) ELSE word[i]] :
        low \in SUBSET (1..Len(word))}

Spaces(n) == [i \in 1..n |-> " "]

DatasetNames ==
    {NoName} \cup
    {Name(Spaces(l) \o chars \o Spaces(r)) :
        l \in 0..MaxPad, r \in 0..MaxPad,
        chars \in UNION {Casings(word) : word \in NameWords}}

InitPlugin ==
    /\ PipelineIdle
    /\ basse = BasseIdle
    /\ flares = FlaresIdle
    /\ excel = ExcelIdle
    /\ call = [fn |-> "start", registry |-> RegistryDict]

\* One call of get_plugin; the module-level registry is only read.
CallGetPlugin ==
    /\ call.fn \in {"start", "get_plugin"}
    /\ \E dataset_name \in DatasetNames :
          call' = [fn |-> "get_plugin", registry |-> call.registry,
                   dataset_name |-> dataset_name,
                   outcome |-> LookupPlugin(call.registry, dataset_name)]
    /\ UNCHANGED <<pipeline_vars, basse, flares, excel>>

NextPlugin == CallGetPlugin

SpecPlugin == InitPlugin /\ [][NextPlugin]_vars

(***************************************************************************)
(* validation/create_expert_review_task.py on evaluation objects whose     *)
(* scores and justifications need not have the same keys.                  *)
(***************************************************************************)
\* create_expert_review_task: scores_dict[criterion] is read for the keys of
\* scores_dict only, and justifications_dict[criterion] raises KeyError for a
\* key it lacks (lines 17-29).
CreateExpertReviewTaskOutcome(doc_id, model_name, original_text, extraction_to_evaluate, evaluation_object) ==
    IF \E criterion \in DOMAIN evaluation_object.scores :
          criterion \notin DOMAIN evaluation_object.justifications
    THEN [ok |-> FALSE, error |-> "KeyError"]
    ELSE [ok |-> TRUE,
          review_task |-> CreateExpertReviewTask(doc_id, model_name, original_text,
                                                 extraction_to_evaluate,
                                                 evaluation_object)]

\* Key sets of a scores or justifications dump: the six criteria and one more,
\* less at most MaxMissing of them.
CriterionKeySets ==
    {keys \in SUBSET (ScoreFields \cup {"novelty"}) :
        Cardinality((ScoreFields \cup {"novelty"}) \ keys) <= MaxMissing}

EvaluationObjects ==
    {[scores |-> [c \in score_keys |-> 4],
      justifications |-> [c \in justification_keys |-> <<"why", c>>],
      confidence_level |-> [score |-> 5, justification |-> "cA"]] :
        score_keys \in CriterionKeySets, justification_keys \in CriterionKeySets}

InitReview ==
    /\ PipelineIdle
    /\ basse = BasseIdle
    /\ flares = FlaresIdle
    /\ excel = ExcelIdle
    /\ call = [fn |-> "start"]

\* One call of create_expert_review_task.
CallCreateExpertReviewTask ==
    /\ call.fn = "start"
    /\ \E doc_id \in 1..2, evaluation_object \in EvaluationObjects :
          call' = [fn |-> "create_expert_review_task",
                   doc_id |-> doc_id,
                   evaluation_object |-> evaluation_object,
                   outcome |-> CreateExpertReviewTaskOutcome(
                                  doc_id, <<"gpt4o">>, "X", "S", evaluation_object)]
    /\ UNCHANGED <<pipeline_vars, basse, flares, excel>>

NextReview == CallCreateExpertReviewTask

SpecReview == InitReview /\ [][NextReview]_vars

(***************************************************************************)
(* main.py: iter_tasks and run_prepare_only on bounded document lists.     *)
(***************************************************************************)
\* The extractions a BASSE line can hold: none, one model's, every model's.
PresentSamples == {{}, {3}, 1..Len(BasseModels)}

\* The decoded line idx of a BASSE file, with the extraction "S1" for each
\* model of `present`.
SampleObject(idx, present) ==
    [idx |-> idx,
     round |-> "r1",
     original_document |-> "X",
     model_extractions |->
        [m \in {<<BasseModels[j], "-5w1h">> : j \in present} |-> [summ |-> "S1"]]]

\* The lists plugin.preprocess(cfg) can return: for BASSE one Document per
\* line, for FLARES the flattened survivors of n records.
DocLists(plugin) ==
    IF plugin = "BASSE"
    THEN UNION {{[i \in 1..n |-> BasseDocument(SampleObject(i, present[i]))] :
                    present \in [1..n -> PresentSamples]} : n \in 0..MaxDocs}
    ELSE {PluginPreprocess(plugin, n) : n \in 0..MaxDocs}

\* A negative --limit.
NegativeLimit == 0 - 2

\* The limits: null, negative, zero, small, and one past a document's tasks.
PrepareLimitSamples ==
    {NoneInt, NegativeLimit} \cup 0..MaxLimit \cup {Len(BasseModels) + 1}

InitPrepare ==
    /\ PipelineIdle
    /\ basse = BasseIdle
    /\ flares = FlaresIdle
    /\ excel = ExcelIdle
    /\ call = [fn |-> "start"]

\* list(iter_tasks(plugin_name, cfg, limit)) on a dataset.
CallIterTasks ==
    /\ call.fn = "start"
    /\ \E plugin \in Registry, limit \in PrepareLimitSamples :
          \E docs \in DocLists(plugin) :
             call' = [fn |-> "iter_tasks", plugin |-> plugin, docs |-> docs,
                      limit |-> limit,
                      iter_tasks |-> IterTasks(plugin, docs, limit)]
    /\ UNCHANGED <<pipeline_vars, basse, flares, excel>>

\* run_prepare_only(dataset, cfg, limit) on the same dataset and limit.
CallRunPrepareOnly ==
    /\ call.fn = "iter_tasks"
    /\ call' = [fn |-> "run_prepare_only", plugin |-> call.plugin,
                docs |-> call.docs, limit |-> call.limit,
                iter_tasks |-> call.iter_tasks,
                run_prepare_only |->
                    RunPrepareOnlyTasks(call.plugin, call.docs, call.limit)]
    /\ UNCHANGED <<pipeline_vars, basse, flares, excel>>

NextPrepare ==
    \/ CallIterTasks
    \/ CallRunPrepareOnly

SpecPrepare == InitPrepare /\ [][NextPrepare]_vars

(***************************************************************************)
(* Properties of the evaluate loop (specification Spec).                   *)
(***************************************************************************)
\* Positions of a run after evaluate has returned its results.
AfterEvaluate == {"evaluated", "results_written", "review_loop", "review_written"}

\* Neither the tool call arguments (if any) nor the message content is a valid
\* DetailedEvaluation.
Unparseable(msg) ==
    /\ msg.tool_calls # <<>> => ~ ValidateText(msg.tool_calls[1]).ok
    /\ ~ ValidateText(ContentOrEmpty(msg)).ok

\* The shape of a result recorded for a task whose output did not parse.
IsFailureResultOf(r, task, msg) ==
    /\ r.evaluation_data = None
    /\ r.document_idx = task[1]
    /\ r.model_evaluated = task[4]
    /\ {"error", "raw_output", "token_usage"} \subseteq DOMAIN r
    /\ r.raw_output = ContentOrEmpty(msg)

OpenAIResultOf(task, c) ==
    IF OpenAIParse(c.message).ok
    THEN SuccessResult(task, OpenAIParse(c.message).evaluation, c.usage)
    ELSE FailureResult(task, c.message, c.usage)

\* C2: AnthropicEvaluator.evaluate honours the contract of
\* OpenAIEvaluator.evaluate: it never raises on a response that fails to parse,
\* and the result it records for every task is the one OpenAIEvaluator records
\* for the same task and response.
C2_AnthropicSameAsOpenAI ==
    EvaluatorOf(cfg.provider) = "AnthropicEvaluator" =>
        /\ exc # "RuntimeError: Failed to parse model output"
        /\ (pc = "pending" /\ k >= 1) =>
                /\ Len(results) = k
                /\ results[k] = OpenAIResultOf(tasks[k], completion)

\* C3: a run of run_evaluate (OpenAI evaluator) that attempted at least one
\* task and has ended, by returning or by an exception, has written the
\* results artifact, with one entry per attempted task.
C3_ArtifactPerAttemptedTask ==
    (/\ EvaluatorOf(cfg.provider) = "OpenAIEvaluator"
     /\ pc \in {"raised", "done"}
     /\ llm_calls >= 1) =>
        /\ results_file # None
        /\ Len(results_file.results) = llm_calls

\* C4: at every point of OpenAIEvaluator.evaluate the i-th result carries the
\* document id and the model name of the i-th task, and once evaluate has
\* returned there is exactly one result per task.
C4_ResultsFollowTasks ==
    EvaluatorOf(cfg.provider) = "OpenAIEvaluator" =>
        /\ Len(results) <= Len(tasks)
        /\ \A i \in 1..Len(results) :
              /\ results[i].document_idx = tasks[i][1]
              /\ results[i].model_evaluated = tasks[i][4]
        /\ pc \in AfterEvaluate => Len(results) = Len(tasks)

\* Two tasks of different model names have been evaluated, the first one a
\* parse failure.
C4_Witness ==
    /\ EvaluatorOf(cfg.provider) = "OpenAIEvaluator"
    /\ pc = "evaluated"
    /\ Len(tasks) = 2
    /\ tasks[1][4] # tasks[2][4]
    /\ results[1].evaluation_data = None
    /\ results[2].evaluation_data # None

\* C5: every recorded result has evaluation_data null, or six integer scores
\* in [1,5], a confidence score in [1,5] and justifications with the key set of
\* the scores.
C5_EvaluationDataValid ==
    \A i \in 1..Len(results) :
        \/ results[i].evaluation_data = None
        \/ /\ DOMAIN results[i].evaluation_data.scores =
                {"factual_accuracy", "completeness", "relevance_and_conciseness",
                 "clarity_and_readability", "source_faithfulness", "overall_coherence"}
           /\ \A f \in DOMAIN results[i].evaluation_data.scores :
                 results[i].evaluation_data.scores[f] \in 1..5
           /\ DOMAIN results[i].evaluation_data.justifications =
                DOMAIN results[i].evaluation_data.scores
           /\ results[i].evaluation_data.confidence_level.score \in 1..5

\* A tool call with a score of 6 (and content with a score of 0) was recorded
\* as a failure, after a valid evaluation was recorded.
C5_Witness ==
    /\ pc = "pending"
    /\ Len(results) = 2
    /\ results[1].evaluation_data # None
    /\ completion.message.tool_calls = <<"score6">>
    /\ completion.message.content = "score0"
    /\ results[2].evaluation_data = None

\* Number of results with evaluation_data.
RECURSIVE SuccessCount(_)
SuccessCount(results_list) ==
    IF results_list = <<>> THEN 0
    ELSE (IF Head(results_list).evaluation_data # None THEN 1 ELSE 0)
         + SuccessCount(Tail(results_list))

\* C6: with generate_review_task enabled run_evaluate raises nothing on a
\* result without evaluation_data, and the review artifact it writes has one
\* review item per result with evaluation_data.
C6_ReviewSkipsFailedResults ==
    /\ exc # "ValidationError"
    /\ pc = "review_written" => Len(review_file.review_items) = SuccessCount(results)

\* C8: with a positive limit N, run_preprocess_only returns at most N
\* documents, run_evaluate builds at most N tasks and at most N LLM calls are
\* started.
C8_LimitCaps ==
    (pc # "idle" /\ LimitApplies(cfg.limit)) =>
        /\ returned.kind = "docs" => Len(returned.value) <= cfg.limit
        /\ Len(tasks) <= cfg.limit
        /\ llm_calls <= cfg.limit

\* A BASSE run with limit 1, whose one document yields five tasks, has
\* evaluated one task and ended.
C8_Witness ==
    /\ pc = "done"
    /\ cfg.limit = 1
    /\ GetPlugin(cfg.dataset) = "BASSE"
    /\ Len(tasks) = 1
    /\ llm_calls = 1

(***************************************************************************)
(* Properties of the dataset plugins (SpecBasse, SpecFlares).              *)
(***************************************************************************)
\* The per-model extraction fields of a BASSE Document that are not null.
NonNullExtractions(doc) ==
    {i \in 1..Len(doc) : doc[i].key[Len(doc[i].key)] = "_summ" /\ doc[i].value # NoneStr}

\* C7: a BASSE Document with N non-null per-model extraction fields yields
\* exactly N tasks, of distinct model names, one per non-null field and named
\* by the field minus its suffix; a null extraction yields no task.
C7_OneTaskPerNonNullExtraction ==
    basse.stage = "prepared" =>
        \A d \in 1..Len(basse.data_list) :
            LET doc == basse.data_list[d]
                doc_tasks == basse.tasks_by_doc[d]
            IN  /\ Len(doc_tasks) = Cardinality(NonNullExtractions(doc))
                /\ \A i, j \in 1..Len(doc_tasks) :
                      i # j => doc_tasks[i][4] # doc_tasks[j][4]
                /\ \A i \in 1..Len(doc_tasks) : doc_tasks[i][3] # NoneStr
                /\ {doc_tasks[i][4] : i \in 1..Len(doc_tasks)} =
                      {<<doc[i].key[1]>> : i \in NonNullExtractions(doc)}

\* The tags of the record read, and of the object selected for it.
InputTags == flares.merged[1].Processed_Tags
SelectedTags == flares.optimal[1].Processed_Tags
FourLabels == {"WHO", "WHAT", "WHEN", "WHERE"}

\* The record has a 'confiable' annotation of the label.
HasReliable(label) ==
    \E i \in 1..Len(InputTags) :
        /\ InputTags[i].W5H1_Label = label
        /\ InputTags[i].Reliability_Label = "confiable"

\* C9: a FLARES record survives select_best_5w1h_combination, and then yields
\* exactly one task, if and only if each of WHO, WHAT, WHEN and WHERE has an
\* annotation marked 'confiable'; otherwise it yields no task.  WHY and HOW
\* annotations play no part.
C9_SurvivesIffFourReliable ==
    flares.stage \in {"selected", "flat", "prepared"} =>
        /\ (\A label \in FourLabels : HasReliable(label)) => Len(flares.optimal) = 1
        /\ (\E label \in FourLabels : ~ HasReliable(label)) => Len(flares.optimal) = 0
        /\ flares.stage = "prepared" =>
              /\ Len(flares.tasks) = Len(flares.optimal)
              /\ \A i \in 1..Len(flares.tasks) : Len(flares.tasks[i]) = 1

\* A record with reliable WHO/WHAT/WHEN/WHERE tags and no WHY tag has yielded
\* its one task.
C9_Witness ==
    /\ flares.stage = "prepared"
    /\ Len(flares.tasks) = 1
    /\ \A i \in 1..Len(InputTags) : InputTags[i].W5H1_Label # "WHY"
    /\ \E i \in 1..Len(InputTags) : InputTags[i].Reliability_Label # "confiable"

\* C10: for each required label the selected annotation is an annotation of
\* the record that is marked 'confiable' and whose Tag_Start is the smallest
\* among the 'confiable' annotations of that label, whatever the order of the
\* record's tag list; an unreliable annotation is never selected.
C10_EarliestReliableSelected ==
    (flares.stage \in {"selected", "flat", "prepared"} /\ Len(flares.optimal) = 1) =>
        /\ Len(SelectedTags) = Cardinality(FourLabels)
        /\ \A label \in FourLabels :
              \E s \in 1..Len(SelectedTags) :
                 /\ SelectedTags[s].W5H1_Label = label
                 /\ SelectedTags[s].Reliability_Label = "confiable"
                 /\ \E i \in 1..Len(InputTags) : InputTags[i] = SelectedTags[s]
                 /\ \A i \in 1..Len(InputTags) :
                       (/\ InputTags[i].W5H1_Label = label
                        /\ InputTags[i].Reliability_Label = "confiable")
                       => SelectedTags[s].Tag_Start <= InputTags[i].Tag_Start

\* The later reliable WHO tag precedes the earlier one in the tag list, and
\* the earlier one is selected.
C10_Witness ==
    /\ flares.stage = "selected"
    /\ Len(flares.optimal) = 1
    /\ \E i, j \in 1..Len(InputTags) :
          /\ i < j
          /\ InputTags[i].Tag_Text = "who-late"
          /\ InputTags[j].Tag_Text = "who-early"
    /\ \E s \in 1..Len(SelectedTags) : SelectedTags[s].Tag_Text = "who-early"


(***************************************************************************)
(* Token accounting.                                                       *)
(***************************************************************************)
\* The total_tokens count a result contributes: its token_usage.total_tokens
\* when that is a number, else 0.
CountedTokens(r) ==
    IF /\ "token_usage" \in DOMAIN r
       /\ "total_tokens" \in DOMAIN r.token_usage
       /\ r.token_usage.total_tokens # NoneInt
    THEN r.token_usage.total_tokens
    ELSE 0

RECURSIVE SumCounted(_, _)
SumCounted(rs, i) ==
    IF i = 0 THEN 0 ELSE SumCounted(rs, i - 1) + CountedTokens(rs[i])

\* C11: the total_tokens of the results bundle written by run_evaluate is the
\* sum over all results of token_usage.total_tokens, a null or missing count
\* counting as 0, and the bundle is built only once every task has a result.
C11_TotalTokensIsSum ==
    results_file # None =>
        /\ results_file.total_tokens =
              SumCounted(results_file.results, Len(results_file.results))
        /\ results_file.results = results
        /\ k = Len(tasks)
        /\ Len(results) = Len(tasks)

\* A bundle whose results hold a measured total and a null total.
C11_Witness ==
    /\ results_file # None
    /\ results_file.total_tokens = 3
    /\ \E i \in 1..Len(results_file.results) :
          /\ "total_tokens" \in DOMAIN results_file.results[i].token_usage
          /\ results_file.results[i].token_usage.total_tokens = NoneInt

UsageKeys == {"prompt_tokens", "completion_tokens", "total_tokens"}

\* C12: every recorded result carries a token_usage record with the three
\* counts prompt_tokens, completion_tokens and total_tokens, all three present
\* and null when the provider reported no usage.
C12_TokenUsageHasThreeCounts ==
    \A i \in 1..Len(results) : DOMAIN results[i].token_usage = UsageKeys

(***************************************************************************)
(* The spreadsheet export.                                                 *)
(***************************************************************************)
\* The positions in rows_for_excel of the rows of the i-th task.
RowsOf(i) == (Len(CriterionOrder) * (i - 1) + 1)..(Len(CriterionOrder) * i)

\* C13: flattening a list of review tasks yields one row per (task,
\* criterion) pair, six per task, and the rows of one task carry identical
\* document, extraction, confidence and review-identifier values, differing
\* only in criterion, AI score and AI justification.
C13_RowsShareTaskValues ==
    (excel.stage = "written" /\ excel.json_data.kind = "list") =>
        /\ Len(excel.rows) = 6 * Len(excel.json_data.items)
        /\ \A i \in 1..Len(excel.json_data.items) :
              \A a, b \in RowsOf(i) :
                 /\ excel.rows[a].common_info = excel.rows[b].common_info
                 /\ excel.rows[a].review_id = excel.rows[b].review_id
                 /\ a # b => excel.rows[a].criterion # excel.rows[b].criterion

\* C14: the export of the review bundle run_evaluate has written produces
\* one row per (review item, criterion) pair, 6 x |review_items| rows.
C14_ExportAcceptsReviewBundle ==
    (pc = "done" /\ excel.stage # "idle") =>
        Len(excel.rows) = 6 * Len(review_file.review_items)

(***************************************************************************)
(* Output filenames.                                                       *)
(***************************************************************************)
\* A segment with every '/', ':' and space replaced by '_'.
Normalised(segment) ==
    [i \in 1..Len(segment) |->
        IF segment[i] \in {"/", ":", " "} THEN "_" ELSE segment[i]]

\* C15: result_filename returns <timestamp>_<env>_<DATASET>_<provider>_<model>.json
\* with every '/', ':' and space of the provider and of the model segment
\* replaced by '_'; review_filename returns the same stem with '_review'
\* before the '.json' extension.
C15_FilenamePattern ==
    /\ call.fn = "result_filename" =>
          call.name = Timestamp \o <<"_">> \o call.env \o <<"_">>
                      \o StrUpper(call.dataset) \o <<"_">>
                      \o Normalised(call.provider) \o <<"_">>
                      \o Normalised(call.model) \o <<".json">>
    /\ call.fn = "review_filename" =>
          call.name = SubSeq(call.base_json, 1, Len(call.base_json) - 1)
                      \o <<"_review.json">>

(***************************************************************************)
(* Configuration errors.                                                   *)
(***************************************************************************)
\* The errors of an unknown dataset (KeyError), an unknown provider or step
\* (ValueError), a missing file and a missing credential.
ConfigurationErrors ==
    {"KeyError", "ValueError", "FileNotFoundError", "RuntimeError: API key is not set"}

\* C16: a run that ends with an unknown dataset, an unknown provider, a
\* missing file or a missing credential has issued no LLM request, and a
\* missing credential is raised before any task is built or attempted.
C16_ConfigErrorsBeforeAnyCall ==
    /\ exc \in ConfigurationErrors => llm_calls = 0 /\ k = 0 /\ results = <<>>
    /\ exc = "RuntimeError: API key is not set" => tasks = <<>>

\* An evaluate run whose evaluator was built and whose dataset is unknown.
C16_Witness ==
    /\ pc = "raised"
    /\ exc = "KeyError"
    /\ cfg.step = "evaluate"
    /\ cfg.provider = "openai"
    /\ cfg.has_key

(***************************************************************************)
(* The dataset registry.                                                   *)
(***************************************************************************)
\* chars is key in some casing, with spaces before and after it.
IsCasingOf(chars, key) ==
    \E l \in 0..Len(chars) :
        /\ l + Len(key) <= Len(chars)
        /\ \A i \in 1..Len(chars) :
              IF i <= l \/ i > l + Len(key)
              THEN chars[i] = " "
              ELSE chars[i] \in {key[i - l], CharLower(key[i - l])}

\* C17: every casing of a registered name, with any surrounding whitespace,
\* returns that name's plugin with its preprocess and prepare_tasks; every
\* other name, the empty name and None included, fails with a KeyError that
\* lists the valid names; the registry is not modified by a lookup.
C17_GetPluginCaseInsensitive ==
    call.fn = "get_plugin" =>
        /\ call.registry = RegistryDict
        /\ \A key \in DOMAIN RegistryDict :
              (~ call.dataset_name.is_none /\ IsCasingOf(call.dataset_name.chars, key)) =>
                 /\ call.outcome.ok
                 /\ call.outcome.plugin = RegistryDict[key]
                 /\ {"preprocess", "prepare_tasks"} \subseteq DOMAIN call.outcome.plugin
        /\ (call.dataset_name.is_none
            \/ \A key \in DOMAIN RegistryDict :
                  ~ IsCasingOf(call.dataset_name.chars, key)) =>
                 /\ ~ call.outcome.ok
                 /\ call.outcome.error = "KeyError"
                 /\ call.outcome.message.available = RegistryKeys

\* A mixed-case, space-padded registered name was looked up and found.
C17_Witness ==
    /\ call.fn = "get_plugin"
    /\ ~ call.dataset_name.is_none
    /\ call.dataset_name.chars = <<" ", "f", "L", "a", "r", "E", "s", " ">>
    /\ call.outcome.ok

(***************************************************************************)
(* Review-task construction.                                               *)
(***************************************************************************)
\* C18: create_expert_review_task fails with an error whenever the score key
\* set and the justification key set differ, in either direction; when they
\* agree, judgments_to_review has exactly the score keys, each paired with
\* the justification of the same key.
C18_KeyMismatchFails ==
    call.fn = "create_expert_review_task" =>
        LET scores == call.evaluation_object.scores
            justifications == call.evaluation_object.justifications
        IN  IF DOMAIN scores # DOMAIN justifications
            THEN ~ call.outcome.ok
            ELSE /\ call.outcome.ok
                 /\ DOMAIN call.outcome.review_task.judgments_to_review = DOMAIN scores
                 /\ \A c \in DOMAIN scores :
                       /\ call.outcome.review_task.judgments_to_review[c].ai_score
                             = scores[c]
                       /\ call.outcome.review_task.judgments_to_review[c].ai_justification
                             = justifications[c]

(***************************************************************************)
(* The parse of a completion by the OpenAI evaluator.                      *)
(***************************************************************************)
\* The evaluator has just parsed the completion of the current task.
JustParsed ==
    /\ pc \in {"parsed", "parse_failed"}
    /\ EvaluatorOf(cfg.provider) = "OpenAIEvaluator"

\* text is a valid DetailedEvaluation, and the object it denotes.
IsValidEvaluation(text) == JsonLoads(text).ok /\ ModelValidate(JsonLoads(text).obj)
EvaluationOf(text) == ModelDump(JsonLoads(text).obj)

\* The plain-text content of the message, "{}" when there is none.
PlainText == ContentOrEmpty(completion.message)

\* C19: a tool call whose arguments validate gives evaluation_data whatever
\* the content is; when the structured payload fails, the plain-text content
\* is parsed instead and the task succeeds if it is valid; a parse failure
\* is recorded only when both attempts fail.
C19_ToolCallThenContent ==
    JustParsed =>
        LET tool_calls == completion.message.tool_calls IN
        /\ (tool_calls # <<>> /\ IsValidEvaluation(tool_calls[1])) =>
              pc = "parsed" /\ evaluation = EvaluationOf(tool_calls[1])
        /\ (tool_calls # <<>> /\ ~ IsValidEvaluation(tool_calls[1])
                /\ IsValidEvaluation(PlainText)) =>
              pc = "parsed" /\ evaluation = EvaluationOf(PlainText)
        /\ (tool_calls = <<>> /\ IsValidEvaluation(PlainText)) =>
              pc = "parsed" /\ evaluation = EvaluationOf(PlainText)
        /\ pc = "parse_failed" <=>
              /\ ~ IsValidEvaluation(PlainText)
              /\ tool_calls # <<>> => ~ IsValidEvaluation(tool_calls[1])

\* A tool call with an out-of-range score, rescued by a valid content.
C19_Witness ==
    /\ JustParsed
    /\ pc = "parsed"
    /\ completion.message.tool_calls = <<"score6">>
    /\ completion.message.content = "goodB"
    /\ evaluation = ModelDump(GoodB)

\* C20: the result recorded for a parse failure keeps the raw output that
\* failed to parse: for a response with a tool call, raw_output is the
\* arguments of that tool call.
C20_RawOutputKeepsToolArguments ==
    (/\ pc = "pending"
     /\ k > 0
     /\ Len(results) = k
     /\ results[k].evaluation_data = None
     /\ completion.message.tool_calls # <<>>) =>
        results[k].raw_output = completion.message.tool_calls[1]

(***************************************************************************)
(* Task production.                                                        *)
(***************************************************************************)
\* The tasks of the first n documents, document after document.
RECURSIVE TasksOfDocs(_, _, _)
TasksOfDocs(plugin, docs, n) ==
    IF n = 0 THEN <<>>
    ELSE TasksOfDocs(plugin, docs, n - 1) \o PluginPrepareTasks(plugin, docs[n])

\* limit is a positive number.
IsPositiveLimit(limit) == limit \notin {NoneInt, NegativeLimit, 0}

\* The first `limit` elements of s when the limit is positive, else s.
CutAtLimit(s, limit) ==
    IF IsPositiveLimit(limit) /\ limit < Len(s) THEN SubSeq(s, 1, limit) ELSE s

\* C21: the task sequence of iter_tasks is the concatenation, in document
\* order, of each document's prepare_tasks output in the plugin's order, cut
\* at the limit when one applies; nothing is reordered or deduplicated.
C21_TasksInDocumentOrder ==
    call.fn \in {"iter_tasks", "run_prepare_only"} =>
        call.iter_tasks =
            CutAtLimit(TasksOfDocs(call.plugin, call.docs, Len(call.docs)), call.limit)

\* Two BASSE documents under a limit that cuts inside the second one.
C21_Witness ==
    /\ call.fn = "iter_tasks"
    /\ call.plugin = "BASSE"
    /\ Len(call.docs) = 2
    /\ call.limit = Len(BasseModels) + 1
    /\ Len(call.iter_tasks) = call.limit
    /\ call.iter_tasks[call.limit][1] = 2

\* s is a prefix of t.
IsPrefix(s, t) == Len(s) <= Len(t) /\ s = SubSeq(t, 1, Len(s))

\* C24: for every limit, run_prepare_only returns the task sequence that
\* iter_tasks yields, a prefix of the sequence produced with no limit; a
\* null, zero or negative limit truncates nothing.
C24_PrepareOnlyMatchesIterTasks ==
    call.fn = "run_prepare_only" =>
        LET unlimited == TasksOfDocs(call.plugin, call.docs, Len(call.docs)) IN
        /\ call.run_prepare_only = call.iter_tasks
        /\ IsPrefix(call.run_prepare_only, unlimited)
        /\ ~ IsPositiveLimit(call.limit) => call.run_prepare_only = unlimited

\* Two BASSE documents and limit 2: both functions stop inside the first.
C24_Witness ==
    /\ call.fn = "run_prepare_only"
    /\ call.plugin = "BASSE"
    /\ Len(call.docs) = 2
    /\ call.limit = 2
    /\ Len(call.run_prepare_only) = 2

(***************************************************************************)
(* The per-task state machine of the evaluate loop.                        *)
(***************************************************************************)
\* The state of the i-th task.  A task whose request or parse raised stays
\* in the state it had reached.
TaskState(i) ==
    IF i <= Len(results) THEN "RECORDED"
    ELSE IF i > k THEN "PENDING"
    ELSE IF i < k THEN "SKIPPED"
    ELSE CASE pc = "requested" -> "REQUESTED"
           [] pc = "parsed" -> "PARSED"
           [] pc = "parse_failed" -> "PARSE_FAILED"
           [] pc = "raised" /\ exc = "APIError" -> "REQUESTED"
           [] pc = "raised" /\ exc = "RuntimeError: Failed to parse model output"
                -> "PARSE_FAILED"
           [] OTHER -> "SKIPPED"

\* The moves PENDING -> REQUESTED -> (PARSED | PARSE_FAILED) -> RECORDED.
TaskMoves ==
    {<<"PENDING", "REQUESTED">>, <<"REQUESTED", "PARSED">>,
     <<"REQUESTED", "PARSE_FAILED">>, <<"PARSED", "RECORDED">>,
     <<"PARSE_FAILED", "RECORDED">>}

InFlight == {i \in 1..Len(tasks) : TaskState(i) \in {"REQUESTED", "PARSED", "PARSE_FAILED"}}

\* One step of the run, seen from the tasks.
TaskStep ==
    /\ \A i \in 1..Len(tasks') :
          /\ \/ TaskState(i)' = TaskState(i)
             \/ <<TaskState(i), TaskState(i)'>> \in TaskMoves
          /\ (TaskState(i) = "PENDING" /\ TaskState(i)' = "REQUESTED") =>
                \A j \in 1..(i - 1) : TaskState(j) = "RECORDED"
    /\ Len(results) <= Len(results')
    /\ \A i \in 1..Len(results) : results'[i] = results[i]

\* C22: every task moves only along PENDING -> REQUESTED -> (PARSED |
\* PARSE_FAILED) -> RECORDED, at most one task is between REQUESTED and
\* RECORDED at any time, no task is requested before the previous one is
\* recorded, and the result sequence only grows.
C22_TaskStateMachine ==
    /\ [](Cardinality(InFlight) <= 1)
    /\ [][TaskStep]_vars

\* Two tasks recorded in turn, the first as a parse failure.
C22_Witness ==
    /\ pc = "pending"
    /\ Len(tasks) = 2
    /\ Len(results) = 2
    /\ results[1].evaluation_data = None
    /\ results[2].evaluation_data # None

(***************************************************************************)
(* BASSE ingestion.                                                        *)
(***************************************************************************)
\* The positions, in file order, of the lines read so far that decode and
\* process.
GoodLines ==
    SelectSeq([i \in 1..Len(basse.lines) |-> i],
              LAMBDA i : basse.lines[i].wellformed /\ ~ basse.lines[i].raises)

\* C23: get_list_of_objects_from_basse_dataset returns one Document per
\* well-formed line, in file order; a malformed line is skipped without
\* raising and without touching the Documents of the other lines; only a
\* missing file is fatal.
C23_BestEffortIngestion ==
    /\ basse.stage = "raised" => basse.lines = <<>>
    /\ basse.stage \in {"reading", "returned", "prepared"} =>
          /\ Len(basse.data_list) = Len(GoodLines)
          /\ basse.skipped = Len(basse.lines) - Len(GoodLines)
          /\ \A j \in 1..Len(GoodLines) :
                basse.data_list[j] = BasseDocument(basse.lines[GoodLines[j]].obj)

\* A file whose malformed line sits between two well-formed ones.
C23_Witness ==
    /\ basse.stage = "returned"
    /\ Len(basse.lines) = 3
    /\ basse.lines[1].wellformed /\ ~ basse.lines[1].raises
    /\ ~ basse.lines[2].wellformed
    /\ basse.lines[3].wellformed /\ ~ basse.lines[3].raises
    /\ Len(basse.data_list) = 2

(***************************************************************************)
(* The label fields of a FLARES Document.                                  *)
(***************************************************************************)
\* The record has a 'confiable' WHY or HOW annotation.
HasReliableWhyOrHow ==
    \E i \in 1..Len(InputTags) :
        /\ InputTags[i].W5H1_Label \in {"WHY", "HOW"}
        /\ InputTags[i].Reliability_Label = "confiable"

\* The line of an extraction text with the given heading.
ExtractionLine(extraction, heading) ==
    extraction[CHOOSE i \in 1..Len(extraction) : extraction[i][1] = heading]

\* C25: every Document that survives selection and flattening carries the
\* Who, What, When and Where fields, Id and Text, and never a Why or How
\* field, whatever the WHY/HOW annotations of the record; every FLARES task
\* renders Why and How as 'No especificado'.
C25_NoWhyHowField ==
    /\ flares.stage \in {"flat", "prepared"} =>
          \A i \in 1..Len(flares.flat) :
             DOMAIN flares.flat[i] = {"Id", "Text", "Who", "What", "When", "Where"}
    /\ flares.stage = "prepared" =>
          \A i \in 1..Len(flares.tasks) :
             \A j \in 1..Len(flares.tasks[i]) :
                /\ ExtractionLine(flares.tasks[i][j][3], "Por que")[2] = "No especificado"
                /\ ExtractionLine(flares.tasks[i][j][3], "Como")[2] = "No especificado"

\* A record with a reliable WHY annotation has survived and yielded its task.
C25_Witness ==
    /\ flares.stage = "prepared"
    /\ Len(flares.tasks) = 1
    /\ HasReliableWhyOrHow

(***************************************************************************)
(* The order of the artifacts of run_evaluate.                             *)
(***************************************************************************)
\* What is written, and in which order.
ArtifactOrder ==
    /\ pc \in {"review_loop", "review_written"} => results_file # None
    /\ review_objects # <<>> => results_file # None
    /\ review_file # None => results_file # None
    /\ excel.stage # "idle" => review_file # None
    /\ (pc = "raised" /\ exc = "ValidationError") =>
          results_file # None /\ results_file.results = results
    /\ excel.stage = "raised" =>
          /\ pc = "done"
          /\ exc = "none"
          /\ returned.kind = "final"
          /\ returned.value = results_file

\* C26: the results artifact is written before any review task is built,
\* the review file after it and the spreadsheet last; a failure while
\* building review tasks or exporting the spreadsheet leaves the results
\* artifact as written, and an export failure still returns the bundle.
C26_ResultsWrittenFirst ==
    /\ []ArtifactOrder
    /\ [][results_file # None => results_file' = results_file]_vars

\* The export of the review file failed after one task was evaluated.
C26_Witness ==
    /\ pc = "done"
    /\ excel.stage = "raised"
    /\ Len(results_file.results) = 1
    /\ Len(review_file.review_items) = 1

====
